---- MODULE Spec2Model ----
(***************************************************************************)
(* Model of the overtime-clock server (src/server.js): the session store,  *)
(* the overtime tracker, the request handlers and the one-second scheduler *)
(* tick.  JavaScript numbers are modelled as exact rationals (floating     *)
(* point rounding is not modelled); a JavaScript value is a record         *)
(* [k, n, d], k in {"undef", "null", "num", "nan", "fn", "obj"}, and n/d the *)
(* number (0/1 for the kinds that are not numbers).                        *)
(***************************************************************************)
EXTENDS Integers, Sequences, FiniteSets, TLC

VARIABLES
    clock,      \* the wall clock, in ms since the process started (Date.now())
    sessions,   \* the sessions Map: a sequence of [key, val] in insertion order
    tracking,   \* the userOvertimeTracking Map: a sequence of [key, val]
    req,        \* the request (or timer callback) being answered, NoReq if none
    resp,       \* its HTTP response, on its way to the client
    emitted,    \* the socket events it emitted, in order, on their way
    hist,       \* history per stored session id (observations, not program state)
    client      \* the browser client (src/public/script.js) and its messages

vars == <<clock, sessions, tracking, req, resp, emitted, hist, client>>

(***************************************************************************)
(* Bounds of the model.                                                    *)
(***************************************************************************)
\* the clock is read at multiples of ClockStepMs, up to MaxClockSteps of them
MaxClockSteps == 2
\* at most this many sessions are held in the store
MaxSessions == 2
\* stop requests are taken while the weekly total stays within this many hours
MaxTracked == 2
\* the client has at most this many fetches of start-session and calculate
\* awaiting their response
MaxPending == 2
\* the client sends at most this many stop requests
MaxStops == 2
\* the page is followed for this many steps of the clock
MaxClientClockSteps == 1
\* Calculate is clicked while fewer than this many fetches await their response
MaxCalcs == 1

(***************************************************************************)
(* Program constants.                                                      *)
(***************************************************************************)
MAX_HOURS_PER_DAY == 4
MAX_HOURS_PER_WEEK == 12
MAX_HOURS_PER_YEAR == 100
SustainableHours == 8
SecondsPerHour == 3600
MsPerSecond == 1000
\* the model reads the clock on the hour
ClockStepMs == SecondsPerHour * MsPerSecond

(***************************************************************************)
(* JavaScript values and arithmetic.                                       *)
(***************************************************************************)
RECURSIVE GCD(_, _)
GCD(a, b) == IF b = 0 THEN a ELSE GCD(b, a % b)

Abs(x) == IF x < 0 THEN -x ELSE x

\* the number n/d, in lowest terms with a positive denominator
Rat(n, d) ==
    LET g == GCD(Abs(n), Abs(d))
        s == IF d < 0 THEN -1 ELSE 1
    IN  [k |-> "num", n |-> (s * n) \div g, d |-> (s * d) \div g]

Num(n) == Rat(n, 1)

Undef == [k |-> "undef", n |-> 0, d |-> 1]

Null == [k |-> "null", n |-> 0, d |-> 1]

\* NaN
NaN == [k |-> "nan", n |-> 0, d |-> 1]

\* a function object (a method inherited from Object.prototype)
Fn == [k |-> "fn", n |-> 0, d |-> 1]

\* an object (Object.prototype itself)
Obj == [k |-> "obj", n |-> 0, d |-> 1]

\* ToNumber: null converts to 0; undefined, NaN, a function and a plain object
\* convert to NaN
ToNumber(v) == IF v.k = "null" THEN Num(0)
               ELSE IF v.k = "num" THEN v
               ELSE NaN

IsNaN(v) == ToNumber(v).k = "nan"

\* ToBoolean of a value: undefined, null, 0 and NaN are falsy, a function and
\* an object are truthy
Truthy(v) == (v.k = "num" /\ v.n # 0) \/ v.k \in {"fn", "obj"}

\* a || b
Or(a, b) == IF Truthy(a) THEN a ELSE b

\* arithmetic on a NaN operand gives NaN
Add(a, b) ==
    IF IsNaN(a) \/ IsNaN(b) THEN NaN
    ELSE Rat(ToNumber(a).n * ToNumber(b).d + ToNumber(b).n * ToNumber(a).d,
             ToNumber(a).d * ToNumber(b).d)

Sub(a, b) ==
    IF IsNaN(a) \/ IsNaN(b) THEN NaN
    ELSE Rat(ToNumber(a).n * ToNumber(b).d - ToNumber(b).n * ToNumber(a).d,
             ToNumber(a).d * ToNumber(b).d)

Mul(a, b) ==
    IF IsNaN(a) \/ IsNaN(b) THEN NaN
    ELSE Rat(ToNumber(a).n * ToNumber(b).n, ToNumber(a).d * ToNumber(b).d)

\* a / b for b # 0
Div(a, b) ==
    IF IsNaN(a) \/ IsNaN(b) THEN NaN
    ELSE Rat(ToNumber(a).n * ToNumber(b).d, ToNumber(a).d * ToNumber(b).n)

\* a comparison with a NaN operand is false
Lt(a, b) ==
    /\ ~IsNaN(a) /\ ~IsNaN(b)
    /\ ToNumber(a).n * ToNumber(b).d < ToNumber(b).n * ToNumber(a).d

Le(a, b) ==
    /\ ~IsNaN(a) /\ ~IsNaN(b)
    /\ ToNumber(a).n * ToNumber(b).d <= ToNumber(b).n * ToNumber(a).d

Gt(a, b) == Lt(b, a)

\* ToBoolean of a string or undefined: undefined and "" are falsy
TypeUndef == "<undefined>"

TruthyStr(s) == s # TypeUndef /\ s # ""

\* Number.prototype.toString of a non-negative integer, as its decimal digits
DigitChars == <<"0", "1", "2", "3", "4", "5", "6", "7", "8", "9">>

RECURSIVE ToStr(_)
ToStr(n) ==
    IF n < 10 THEN <<DigitChars[n + 1]>>
    ELSE Append(ToStr(n \div 10), DigitChars[(n % 10) + 1])

(***************************************************************************)
(* Map: get, has and set on a sequence of [key, val], in insertion order.  *)
(***************************************************************************)
MapHas(m, key) == \E i \in 1..Len(m) : m[i].key = key

MapIndex(m, key) == CHOOSE i \in 1..Len(m) : m[i].key = key

MapGet(m, key) == m[MapIndex(m, key)].val

\* set keeps the place of a key that is already there, and appends a new one
MapSet(m, key, val) ==
    IF MapHas(m, key)
    THEN [m EXCEPT ![MapIndex(m, key)] = [key |-> key, val |-> val]]
    ELSE Append(m, [key |-> key, val |-> val])

MapKeys(m) == {m[i].key : i \in 1..Len(m)}

(***************************************************************************)
(* Limits, multipliers and the pure functions of the server.               *)
(***************************************************************************)
OVERTIME_LIMITS ==
    [MAX_HOURS_PER_DAY |-> Num(MAX_HOURS_PER_DAY),
     MAX_HOURS_PER_WEEK |-> Num(MAX_HOURS_PER_WEEK),
     MAX_HOURS_PER_YEAR |-> Num(MAX_HOURS_PER_YEAR)]

OVERTIME_MULTIPLIERS ==
    [normal |-> Rat(3, 2), night |-> Rat(7, 4), sunday |-> Num(2), holiday |-> Rat(5, 2)]

\* the names an object literal inherits from Object.prototype: eleven
\* methods and the accessor __proto__
ObjectPrototypeKeys ==
    {"constructor", "toString", "toLocaleString", "valueOf", "hasOwnProperty",
     "isPrototypeOf", "propertyIsEnumerable", "__defineGetter__",
     "__defineSetter__", "__lookupGetter__", "__lookupSetter__", "__proto__"}

\* OVERTIME_MULTIPLIERS[key]: an own property, else a property inherited
\* from Object.prototype (__proto__ gives Object.prototype itself, the other
\* names a method), else undefined
GetMultiplier(key) ==
    IF key \in DOMAIN OVERTIME_MULTIPLIERS THEN OVERTIME_MULTIPLIERS[key]
    ELSE IF key = "__proto__" THEN Obj
    ELSE IF key \in ObjectPrototypeKeys THEN Fn
    ELSE Undef

\* OVERTIME_MULTIPLIERS[overtimeType] || 1.5
Multiplier(overtimeType) == Or(GetMultiplier(overtimeType), Rat(3, 2))

ZeroTracking == [weekly |-> Num(0), yearly |-> Num(0)]

\* userOvertimeTracking.get(userId) || { weekly: 0, yearly: 0 }
TrackingOf(userId) ==
    IF MapHas(tracking, userId) THEN MapGet(tracking, userId) ELSE ZeroTracking

\* a validator that rejects hours over the daily limit instead of warning
validateOvertimeHours_Enforcing(hours, type, userId) ==
    LET errors == IF Le(hours, Num(0)) \/ Gt(hours, OVERTIME_LIMITS.MAX_HOURS_PER_DAY)
                  THEN <<"Overtime hours must be greater than 0">> ELSE <<>>
    IN  [isValid |-> Len(errors) = 0, errors |-> errors, warnings |-> <<>>]

\* a validator whose daily check is hours >= MAX_HOURS_PER_DAY
validateOvertimeHours_Inclusive(hours, type, userId) ==
    LET errors == IF Le(hours, Num(0))
                  THEN <<"Overtime hours must be greater than 0">> ELSE <<>>
        w1 == IF ~Lt(hours, OVERTIME_LIMITS.MAX_HOURS_PER_DAY) THEN <<"daily">> ELSE <<>>
        userTracking == TrackingOf(userId)
        w2 == IF Gt(Add(userTracking.weekly, hours), OVERTIME_LIMITS.MAX_HOURS_PER_WEEK)
              THEN <<"weekly">> ELSE <<>>
        w3 == IF Gt(Add(userTracking.yearly, hours), OVERTIME_LIMITS.MAX_HOURS_PER_YEAR)
              THEN <<"yearly">> ELSE <<>>
        w4 == IF Gt(hours, Num(SustainableHours)) THEN <<"sustainability">> ELSE <<>>
    IN  [isValid |-> Len(errors) = 0,
         errors |-> errors,
         warnings |-> w1 \o w2 \o w3 \o w4]

\* The warnings are modelled by their kind; the text of a message (which
\* quotes the totals) is not.
validateOvertimeHours(hours, type, userId) ==
    LET errors == IF Le(hours, Num(0))
                  THEN <<"Overtime hours must be greater than 0">> ELSE <<>>
        w1 == IF Gt(hours, OVERTIME_LIMITS.MAX_HOURS_PER_DAY) THEN <<"daily">> ELSE <<>>
        userTracking == TrackingOf(userId)
        newWeeklyTotal == Add(userTracking.weekly, hours)
        w2 == IF Gt(newWeeklyTotal, OVERTIME_LIMITS.MAX_HOURS_PER_WEEK)
              THEN <<"weekly">> ELSE <<>>
        newYearlyTotal == Add(userTracking.yearly, hours)
        w3 == IF Gt(newYearlyTotal, OVERTIME_LIMITS.MAX_HOURS_PER_YEAR)
              THEN <<"yearly">> ELSE <<>>
        w4 == IF Gt(hours, Num(SustainableHours)) THEN <<"sustainability">> ELSE <<>>
    IN  [isValid |-> Len(errors) = 0,
         errors |-> errors,
         warnings |-> w1 \o w2 \o w3 \o w4]

calculateOvertimePayFromRate(hourlyRate, overtimeType, hours) ==
    LET multiplier == Multiplier(overtimeType)
        totalPay == Mul(Mul(hourlyRate, multiplier), hours)
        ratePerSecond == Div(totalPay, Mul(hours, Num(SecondsPerHour)))
    IN  [hourlyRate |-> hourlyRate,
         multiplier |-> multiplier,
         totalPay |-> totalPay,
         ratePerSecond |-> ratePerSecond]

\* a tracker that forgets the yearly total
updateUserOvertimeTracking_WeeklyOnly(userId, hours) ==
    LET current == TrackingOf(userId)
    IN  MapSet(tracking, userId,
               [weekly |-> Add(current.weekly, hours), yearly |-> current.yearly])

\* a tracker that counts a session without hours as the one hour its
\* calculation was made for
updateUserOvertimeTracking_HourBasis(userId, hours) ==
    LET current == TrackingOf(userId)
        h == Or(hours, Num(1))
    IN  MapSet(tracking, userId,
               [weekly |-> Add(current.weekly, h),
                yearly |-> Add(current.yearly, h)])

\* a tracker that starts every update from a zeroed entry
updateUserOvertimeTracking_FromZero(userId, hours) ==
    MapSet(tracking, userId,
           [weekly |-> Add(ZeroTracking.weekly, hours),
            yearly |-> Add(ZeroTracking.yearly, hours)])

\* the Map after updateUserOvertimeTracking(userId, hours)
updateUserOvertimeTracking(userId, hours) ==
    LET current == TrackingOf(userId)
    IN  MapSet(tracking, userId,
               [weekly |-> Add(current.weekly, hours),
                yearly |-> Add(current.yearly, hours)])

(***************************************************************************)
(* The inputs of the requests.                                             *)
(***************************************************************************)
ClockTimes == {i * ClockStepMs : i \in 0..MaxClockSteps}

\* the request bodies of start-session and calculate: the well-formed ones
\* (open-ended, within the limits, over the limits) and, for each check of
\* the handler, bodies that fail it
GoodBodies ==
    {[hourlyRate |-> Num(20), overtimeType |-> "normal", hours |-> h] :
        h \in {Undef, Num(1), Num(11)}}

BadBodies ==
    {[hourlyRate |-> r, overtimeType |-> "normal", hours |-> Num(1)] :
        r \in {Undef, Num(0), Num(-20)}}
    \cup {[hourlyRate |-> Num(20), overtimeType |-> TypeUndef, hours |-> Num(1)]}
    \cup {[hourlyRate |-> Num(20), overtimeType |-> "normal", hours |-> h] :
             h \in {Num(-1), Num(0)}}

Bodies == GoodBodies \cup BadBodies

\* calculate is also asked for hours over the yearly limit
CalculateBodies ==
    Bodies \cup {[hourlyRate |-> Num(20), overtimeType |-> "holiday", hours |-> Num(101)]}

\* ids a client may ask for: every id in the store, and one that is not
UnknownId == <<"x">>

IdInputs == MapKeys(sessions) \cup {UnknownId}

NoReq == [op |-> "none"]

NoResp == [status |-> 0]

FreshHist ==
    [stopped |-> FALSE, endedBy |-> "none", accrued |-> Num(0),
     completes |-> 0, deacts |-> 0]

\* currentSession = null
NoSession == <<>>

\* the client after the page has loaded: the globals of script.js, the
\* loading overlay, the requests, responses and socket messages on their way,
\* the rooms its socket has joined, and a log of the stop requests it sent
InitialClient ==
    [isCounterRunning |-> FALSE,
     currentSession |-> NoSession,
     loading |-> FALSE,
     startReqs |-> <<>>,
     startResps |-> <<>>,
     formDisabled |-> FALSE,
     enableTimers |-> 0,
     calcReqs |-> <<>>,
     calcResps |-> <<>>,
     stopReqs |-> <<>>,
     stopResps |-> <<>>,
     joinReqs |-> <<>>,
     rooms |-> {},
     events |-> <<>>,
     stopLog |-> <<>>]

Init ==
    /\ clock = 0
    /\ sessions = <<>>
    /\ tracking = <<>>
    /\ req = NoReq
    /\ resp = NoResp
    /\ emitted = <<>>
    /\ hist = <<>>
    /\ client = InitialClient

\* A handler runs to its end before the next one starts: the model takes the
\* next request once the last response has left.
Idle == req = NoReq

\* the clock moves on (it never runs backwards)
Advance(t) ==
    /\ Idle
    /\ UNCHANGED client
    /\ t > clock
    /\ clock' = t
    /\ UNCHANGED <<sessions, tracking, req, resp, emitted, hist>>

\* the response and the events of the last handler leave the server
Deliver ==
    /\ ~Idle
    /\ UNCHANGED client
    /\ req' = NoReq
    /\ resp' = NoResp
    /\ emitted' = <<>>
    /\ UNCHANGED <<clock, sessions, tracking, hist>>

(***************************************************************************)
(* POST /api/calculate                                                     *)
(***************************************************************************)
CalculateResponse(hourlyRate, overtimeType, hours) ==
    IF ~Truthy(hourlyRate) \/ ~TruthyStr(overtimeType)
    THEN [status |-> 400, error |-> "Hourly rate and overtime type are required"]
    ELSE IF Le(hourlyRate, Num(0))
    THEN [status |-> 400, error |-> "Invalid hourly rate"]
    ELSE LET hoursToUse == Or(hours, Num(1))
             validation == validateOvertimeHours(hoursToUse, overtimeType, "default")
         IN  IF ~validation.isValid
             THEN [status |-> 400, error |-> validation.errors[1]]
             ELSE [status |-> 200, success |-> TRUE,
                   calculation |->
                       calculateOvertimePayFromRate(hourlyRate, overtimeType, hoursToUse),
                   warnings |-> validation.warnings,
                   isPreview |-> ~Truthy(hours)]

Calculate(hourlyRate, overtimeType, hours) ==
    /\ Idle
    /\ UNCHANGED client
    /\ req' = [op |-> "calculate", hourlyRate |-> hourlyRate,
               overtimeType |-> overtimeType, hours |-> hours]
    /\ resp' = CalculateResponse(hourlyRate, overtimeType, hours)
    /\ emitted' = <<>>
    /\ UNCHANGED <<clock, sessions, tracking, hist>>

(***************************************************************************)
(* POST /api/start-session                                                 *)
(***************************************************************************)
\* the session object stored by a start that passed validation
NewSession(sessionId, hourlyRate, overtimeType, totalHours, calculation, warnings) ==
    [id |-> sessionId,
     hourlyRate |-> hourlyRate,
     overtimeType |-> overtimeType,
     totalHours |-> totalHours,
     calculation |-> calculation,
     startTime |-> Num(clock),
     isActive |-> TRUE,
     currentEarnings |-> Num(0),
     warnings |-> warnings,
     isOpenEnded |-> ~Truthy(totalHours),
     endTime |-> Undef,
     duration |-> Undef,
     elapsedTime |-> Undef,
     remainingTime |-> Undef]

\* Date.now().toString()
NewSessionId == ToStr(clock)

\* what the handler answers and stores: [resp, sessions]
StartSessionResult(hourlyRate, overtimeType, hours) ==
    IF ~Truthy(hourlyRate) \/ ~TruthyStr(overtimeType)
    THEN [resp |-> [status |-> 400,
                    error |-> "Hourly rate and overtime type are required"],
          sessions |-> sessions]
    ELSE IF Le(hourlyRate, Num(0))
    THEN [resp |-> [status |-> 400, error |-> "Invalid hourly rate"],
          sessions |-> sessions]
    ELSE LET totalHours == Or(hours, Null)
             hoursToUse == Or(totalHours, Num(1))
             validation == validateOvertimeHours(hoursToUse, overtimeType, "default")
             calculation ==
                 calculateOvertimePayFromRate(hourlyRate, overtimeType, hoursToUse)
             sessionId == NewSessionId
         IN  IF ~validation.isValid
             THEN [resp |-> [status |-> 400, error |-> validation.errors[1]],
                   sessions |-> sessions]
             ELSE [resp |-> [status |-> 200, success |-> TRUE,
                             sessionId |-> sessionId,
                             calculation |-> calculation,
                             warnings |-> validation.warnings,
                             isOpenEnded |-> ~Truthy(totalHours)],
                   sessions |->
                       MapSet(sessions, sessionId,
                              NewSession(sessionId, hourlyRate, overtimeType,
                                         totalHours, calculation,
                                         validation.warnings))]

StartSession(hourlyRate, overtimeType, hours) ==
    LET r == StartSessionResult(hourlyRate, overtimeType, hours)
    IN  /\ Idle
        /\ UNCHANGED client
        /\ Len(r.sessions) <= MaxSessions
        /\ req' = [op |-> "start", hourlyRate |-> hourlyRate,
                   overtimeType |-> overtimeType, hours |-> hours]
        /\ resp' = r.resp
        /\ sessions' = r.sessions
        /\ hist' = IF r.resp.status = 200
                   THEN MapSet(hist, r.resp.sessionId, FreshHist)
                   ELSE hist
        /\ emitted' = <<>>
        /\ UNCHANGED <<clock, tracking>>

(***************************************************************************)
(* POST /api/stop-session/:sessionId                                       *)
(***************************************************************************)
\* the session after the handler's three assignments
\* a stop that records the end but leaves the session active
StoppedSession_StillActive(session) ==
    [session EXCEPT !.endTime = Num(clock),
                    !.duration = Div(Sub(Num(clock), session.startTime),
                                     Num(MsPerSecond))]

StoppedSession(session) ==
    [session EXCEPT !.isActive = FALSE,
                    !.endTime = Num(clock),
                    !.duration = Div(Sub(Num(clock), session.startTime),
                                     Num(MsPerSecond))]

\* a handler that records the completion before it looks the session up
StopSessionResult_RecordFirst(sessionId) ==
    IF ~MapHas(sessions, sessionId)
    THEN [resp |-> [status |-> 404, error |-> "Session not found"],
          sessions |-> sessions,
          tracking |-> updateUserOvertimeTracking("default", Null)]
    ELSE LET session == StoppedSession(MapGet(sessions, sessionId))
         IN  [resp |-> [status |-> 200, success |-> TRUE, session |-> session],
              sessions |-> MapSet(sessions, sessionId, session),
              tracking |-> updateUserOvertimeTracking("default", session.totalHours)]

\* a handler that records the hours only when it stops an active session
StopSessionResult_ActiveOnly(sessionId) ==
    IF ~MapHas(sessions, sessionId)
    THEN [resp |-> [status |-> 404, error |-> "Session not found"],
          sessions |-> sessions,
          tracking |-> tracking]
    ELSE LET was == MapGet(sessions, sessionId)
             session == StoppedSession(was)
         IN  [resp |-> [status |-> 200, success |-> TRUE, session |-> session],
              sessions |-> MapSet(sessions, sessionId, session),
              tracking |-> IF was.isActive
                           THEN updateUserOvertimeTracking("default", session.totalHours)
                           ELSE tracking]

\* what the handler answers, stores and records: [resp, sessions, tracking]
StopSessionResult(sessionId) ==
    IF ~MapHas(sessions, sessionId)
    THEN [resp |-> [status |-> 404, error |-> "Session not found"],
          sessions |-> sessions,
          tracking |-> tracking]
    ELSE LET session == StoppedSession(MapGet(sessions, sessionId))
         IN  [resp |-> [status |-> 200, success |-> TRUE, session |-> session],
              sessions |-> MapSet(sessions, sessionId, session),
              tracking |-> updateUserOvertimeTracking("default", session.totalHours)]

StopSession(sessionId) ==
    LET r == StopSessionResult(sessionId)
        was == MapGet(sessions, sessionId)
        h == MapGet(hist, sessionId)
    IN  /\ Idle
        /\ UNCHANGED client
        /\ \A i \in 1..Len(r.tracking) :
               Le(r.tracking[i].val.weekly, Num(MaxTracked))
        /\ req' = [op |-> "stop", sessionId |-> sessionId]
        /\ resp' = r.resp
        /\ sessions' = r.sessions
        /\ tracking' = r.tracking
        /\ hist' = IF r.resp.status = 200
                   THEN MapSet(hist, sessionId,
                               [h EXCEPT !.stopped = TRUE,
                                         !.endedBy = IF was.isActive THEN "stop" ELSE @,
                                         !.deacts = IF was.isActive THEN @ + 1 ELSE @])
                   ELSE hist
        /\ emitted' = <<>>
        /\ UNCHANGED clock

(***************************************************************************)
(* GET /api/sessions and GET /api/overtime-tracking                        *)
(***************************************************************************)
\* Array.from(sessions.values())
MapValues(m) == [i \in 1..Len(m) |-> m[i].val]

ListSessions ==
    /\ Idle
    /\ UNCHANGED client
    /\ req' = [op |-> "list"]
    /\ resp' = [status |-> 200, success |-> TRUE, sessions |-> MapValues(sessions)]
    /\ emitted' = <<>>
    /\ UNCHANGED <<clock, sessions, tracking, hist>>

GetTracking ==
    /\ Idle
    /\ UNCHANGED client
    /\ req' = [op |-> "tracking"]
    /\ resp' = [status |-> 200, success |-> TRUE,
                tracking |-> TrackingOf("default"),
                limits |-> OVERTIME_LIMITS]
    /\ emitted' = <<>>
    /\ UNCHANGED <<clock, sessions, tracking, hist>>

(***************************************************************************)
(* GET /api/session-status/:sessionId                                      *)
(***************************************************************************)
\* (now - session.startTime) / 1000
ElapsedSeconds(session) == Div(Sub(Num(clock), session.startTime), Num(MsPerSecond))

\* session.totalHours * 3600
MaxSeconds(session) == Mul(session.totalHours, Num(SecondsPerHour))

\* an open-ended branch that counts the remaining time down from zero
StatusOpenEnded_Countdown(session, elapsedSeconds) ==
    [session EXCEPT
        !.currentEarnings = Mul(session.calculation.ratePerSecond, elapsedSeconds),
        !.elapsedTime = elapsedSeconds,
        !.remainingTime = Sub(Num(0), elapsedSeconds)]

StatusOpenEnded(session, elapsedSeconds) ==
    [session EXCEPT
        !.currentEarnings = Mul(session.calculation.ratePerSecond, elapsedSeconds),
        !.elapsedTime = elapsedSeconds,
        !.remainingTime = Null]

\* an accrual branch that restarts the session's clock
StatusAccrue_Rebased(session, elapsedSeconds) ==
    [session EXCEPT
        !.currentEarnings = Mul(session.calculation.ratePerSecond, elapsedSeconds),
        !.elapsedTime = elapsedSeconds,
        !.remainingTime = Sub(MaxSeconds(session), elapsedSeconds),
        !.startTime = Num(clock)]

StatusAccrue(session, elapsedSeconds) ==
    [session EXCEPT
        !.currentEarnings = Mul(session.calculation.ratePerSecond, elapsedSeconds),
        !.elapsedTime = elapsedSeconds,
        !.remainingTime = Sub(MaxSeconds(session), elapsedSeconds)]

StatusComplete(session, elapsedSeconds) ==
    [session EXCEPT
        !.isActive = FALSE,
        !.endTime = Num(clock),
        !.duration = elapsedSeconds,
        !.currentEarnings = session.calculation.totalPay,
        !.elapsedTime = elapsedSeconds,
        !.remainingTime = Num(0)]

\* the session after the handler's if (session.isActive) { ... }
StatusTransition(session) ==
    IF session.isActive
    THEN LET elapsedSeconds == ElapsedSeconds(session)
         IN  IF session.isOpenEnded
             THEN StatusOpenEnded(session, elapsedSeconds)
             ELSE IF Lt(elapsedSeconds, MaxSeconds(session))
                  THEN StatusAccrue(session, elapsedSeconds)
                  ELSE StatusComplete(session, elapsedSeconds)
    ELSE session

\* the history after a tick or a status query took session `was` to `is`
Observe(h, was, is, by, nevents) ==
    [h EXCEPT !.endedBy = IF was.isActive /\ ~is.isActive THEN by ELSE @,
              !.deacts = IF was.isActive /\ ~is.isActive THEN @ + 1 ELSE @,
              !.accrued = IF was.isActive /\ is.isActive THEN is.currentEarnings ELSE @,
              !.completes = @ + nevents]

CompleteEvents(events) ==
    Cardinality({i \in 1..Len(events) : events[i].name = "session-complete"})

\* a status query that tells the room when it completes the session
StatusEvents_OnComplete(was, session) ==
    IF was.isActive /\ ~session.isActive
    THEN <<[room |-> session.id, name |-> "session-complete",
            finalEarnings |-> session.currentEarnings,
            totalDuration |-> session.duration]>>
    ELSE <<>>

\* the events the handler emits on taking the session from `was` to
\* `session`: it calls no emit
StatusEvents(was, session) == <<>>

SessionStatus(sessionId) ==
    /\ Idle
    /\ UNCHANGED client
    /\ req' = [op |-> "status", sessionId |-> sessionId]
    /\ IF ~MapHas(sessions, sessionId)
       THEN /\ resp' = [status |-> 404, success |-> FALSE, error |-> "Session not found"]
            /\ emitted' = <<>>
            /\ UNCHANGED <<sessions, hist>>
       ELSE LET was == MapGet(sessions, sessionId)
                session == StatusTransition(was)
            IN  /\ sessions' = MapSet(sessions, sessionId, session)
                /\ emitted' = StatusEvents(was, session)
                /\ hist' = MapSet(hist, sessionId,
                                  Observe(MapGet(hist, sessionId), was, session,
                                          "status",
                                          CompleteEvents(StatusEvents(was, session))))
                /\ resp' = [status |-> 200, success |-> TRUE,
                            session |-> [currentEarnings |-> session.currentEarnings,
                                         elapsedTime |-> session.elapsedTime,
                                         remainingTime |-> session.remainingTime,
                                         isOpenEnded |-> session.isOpenEnded,
                                         isActive |-> session.isActive]]
    /\ UNCHANGED <<clock, tracking>>

(***************************************************************************)
(* setInterval: the scheduler's tick                                       *)
(***************************************************************************)
\* each branch gives the session after it and the events it emits to the
\* session's room
\* an open-ended branch that ends the session once the hour its calculation
\* was made for has passed
TickOpenEnded_Capped(session, elapsedSeconds) ==
    LET s == IF Lt(elapsedSeconds, Num(SecondsPerHour))
             THEN [session EXCEPT
                      !.currentEarnings =
                          Mul(session.calculation.ratePerSecond, elapsedSeconds)]
             ELSE [session EXCEPT
                      !.isActive = FALSE,
                      !.endTime = Num(clock),
                      !.duration = elapsedSeconds,
                      !.currentEarnings = session.calculation.totalPay]
    IN  [session |-> s,
         events |-> <<[room |-> session.id, name |-> "earnings-update",
                       currentEarnings |-> s.currentEarnings,
                       elapsedTime |-> elapsedSeconds,
                       remainingTime |-> Null,
                       isOpenEnded |-> TRUE]>>]

TickOpenEnded(session, elapsedSeconds) ==
    LET s == [session EXCEPT
                 !.currentEarnings =
                     Mul(session.calculation.ratePerSecond, elapsedSeconds)]
    IN  [session |-> s,
         events |-> <<[room |-> session.id, name |-> "earnings-update",
                       currentEarnings |-> s.currentEarnings,
                       elapsedTime |-> elapsedSeconds,
                       remainingTime |-> Null,
                       isOpenEnded |-> TRUE]>>]

TickAccrue(session, elapsedSeconds) ==
    LET s == [session EXCEPT
                 !.currentEarnings =
                     Mul(session.calculation.ratePerSecond, elapsedSeconds)]
    IN  [session |-> s,
         events |-> <<[room |-> session.id, name |-> "earnings-update",
                       currentEarnings |-> s.currentEarnings,
                       elapsedTime |-> elapsedSeconds,
                       remainingTime |-> Sub(MaxSeconds(session), elapsedSeconds),
                       isOpenEnded |-> FALSE]>>]

\* a completion branch that accrues up to the time of the tick
TickComplete_Accrued(session, elapsedSeconds) ==
    LET s == [session EXCEPT
                 !.isActive = FALSE,
                 !.endTime = Num(clock),
                 !.duration = elapsedSeconds,
                 !.currentEarnings =
                     Mul(session.calculation.ratePerSecond, elapsedSeconds)]
    IN  [session |-> s,
         events |-> <<[room |-> session.id, name |-> "session-complete",
                       finalEarnings |-> s.currentEarnings,
                       totalDuration |-> elapsedSeconds]>>]

TickComplete(session, elapsedSeconds) ==
    LET s == [session EXCEPT
                 !.isActive = FALSE,
                 !.endTime = Num(clock),
                 !.duration = elapsedSeconds,
                 !.currentEarnings = session.calculation.totalPay]
    IN  [session |-> s,
         events |-> <<[room |-> session.id, name |-> "session-complete",
                       finalEarnings |-> s.currentEarnings,
                       totalDuration |-> elapsedSeconds]>>]

\* a forEach body that does not look at isActive
TickSession_NoActiveCheck(session) ==
    LET elapsedSeconds == ElapsedSeconds(session)
    IN  IF session.isOpenEnded
        THEN TickOpenEnded(session, elapsedSeconds)
        ELSE IF Lt(elapsedSeconds, MaxSeconds(session))
             THEN TickAccrue(session, elapsedSeconds)
             ELSE TickComplete(session, elapsedSeconds)

\* the body of the forEach for one session
TickSession(session) ==
    IF session.isActive
    THEN LET elapsedSeconds == ElapsedSeconds(session)
         IN  IF session.isOpenEnded
             THEN TickOpenEnded(session, elapsedSeconds)
             ELSE IF Lt(elapsedSeconds, MaxSeconds(session))
                  THEN TickAccrue(session, elapsedSeconds)
                  ELSE TickComplete(session, elapsedSeconds)
    ELSE [session |-> session, events |-> <<>>]

\* the events of sessions 1..n of the Map, in the order forEach visits them
RECURSIVE TickEvents(_)
TickEvents(n) ==
    IF n = 0 THEN <<>>
    ELSE TickEvents(n - 1) \o TickSession(sessions[n].val).events

Tick ==
    /\ Idle
    /\ UNCHANGED client
    /\ req' = [op |-> "tick"]
    /\ resp' = NoResp
    /\ sessions' = [i \in 1..Len(sessions) |->
                       [key |-> sessions[i].key,
                        val |-> TickSession(sessions[i].val).session]]
    /\ emitted' = TickEvents(Len(sessions))
    /\ hist' = [i \in 1..Len(hist) |->
                   LET was == MapGet(sessions, hist[i].key)
                       r == TickSession(was)
                   IN  [key |-> hist[i].key,
                        val |-> Observe(hist[i].val, was, r.session, "tick",
                                        CompleteEvents(r.events))]]
    /\ UNCHANGED <<clock, tracking>>

(***************************************************************************)
(* The specification.                                                      *)
(***************************************************************************)
Next ==
    \/ \E t \in ClockTimes : Advance(t)
    \/ Deliver
    \/ \E b \in CalculateBodies : Calculate(b.hourlyRate, b.overtimeType, b.hours)
    \/ \E b \in Bodies : StartSession(b.hourlyRate, b.overtimeType, b.hours)
    \/ \E id \in IdInputs : StopSession(id)
    \/ ListSessions
    \/ GetTracking
    \/ \E id \in IdInputs : SessionStatus(id)
    \/ Tick

Spec == Init /\ [][Next]_vars

(***************************************************************************)
(* validateOvertimeHours as a function of the hours and the tracker: the   *)
(* tracker starts at any total a run of stops can have left (weekly and    *)
(* yearly are always added to together), and each step validates one hours *)
(* value against it.                                                       *)
(***************************************************************************)
\* totals around the weekly and the yearly limit
TrackedTotals == {Num(0), Num(1), Num(4), Num(8), Num(11), Num(12),
                  Num(92), Num(96), Num(99), Num(100)}

\* hours below, at and above 0 and each limit
ValidateHours == {Num(0 - 1), Num(0), Rat(1, 2), Num(1), Num(4), Rat(401, 100),
                  Num(5), Num(8), Rat(801, 100), Num(9), Num(12), Num(13),
                  Num(100), Num(101)}

ValidateTypes == {"normal", "holiday"}

InitValidate ==
    /\ clock = 0
    /\ sessions = <<>>
    /\ hist = <<>>
    /\ tracking \in {<<>>} \cup
                    {<<[key |-> "default", val |-> [weekly |-> t, yearly |-> t]]>> :
                         t \in TrackedTotals}
    /\ req = NoReq
    /\ resp = NoResp
    /\ emitted = <<>>
    /\ client = InitialClient

\* one call validateOvertimeHours(hours, type)
Validate(hours, type) ==
    /\ Idle
    /\ UNCHANGED client
    /\ req' = [op |-> "validate", hours |-> hours, overtimeType |-> type]
    /\ resp' = validateOvertimeHours(hours, type, "default")
    /\ UNCHANGED <<clock, sessions, tracking, emitted, hist>>

NextValidate ==
    \/ \E hours \in ValidateHours, type \in ValidateTypes : Validate(hours, type)
    \/ Deliver

SpecValidate == InitValidate /\ [][NextValidate]_vars

(***************************************************************************)
(* calculateOvertimePayFromRate as a function of the rate, the type and    *)
(* the hours, through the two handlers that call it: every body passes the *)
(* checks of the handlers.                                                 *)
(***************************************************************************)
\* the four types of the table, a type that is no property of it, and a
\* type that names a property the table inherits
PayTypes == {"normal", "night", "sunday", "holiday", "weekend", "constructor", "__proto__"}

PayBodies ==
    {[hourlyRate |-> r, overtimeType |-> t, hours |-> h] :
        r \in {Num(20), Rat(25, 2)}, t \in PayTypes,
        h \in {Undef, Num(2), Rat(1, 2)}}

NextCalc ==
    \/ \E b \in PayBodies : Calculate(b.hourlyRate, b.overtimeType, b.hours)
    \/ \E b \in PayBodies : StartSession(b.hourlyRate, b.overtimeType, b.hours)
    \/ Deliver

SpecCalc == Init /\ [][NextCalc]_vars

(***************************************************************************)
(* The server with a clock that keeps advancing and a scheduler that keeps *)
(* ticking.  A response is always delivered.  The timer callback and the   *)
(* passing of time are disabled while a handler's response is in hand and  *)
(* enabled again after it, so their fairness is strong: the event loop     *)
(* serves the timer between handlers however many requests arrive.  The    *)
(* timer callback is enabled in every idle state and the only step that    *)
(* leaves req.op = "tick", so its strong fairness is stated as: a tick     *)
(* step happens again and again.                                           *)
(***************************************************************************)
\* the starts of a fixed and of an open-ended session
LiveBodies ==
    {[hourlyRate |-> Num(20), overtimeType |-> "normal", hours |-> h] :
        h \in {Undef, Num(1)}}

\* the steps that change a session, and time
NextLive ==
    \/ \E t \in ClockTimes : Advance(t)
    \/ Deliver
    \/ \E b \in LiveBodies : StartSession(b.hourlyRate, b.overtimeType, b.hours)
    \/ \E id \in IdInputs : StopSession(id)
    \/ \E id \in IdInputs : SessionStatus(id)
    \/ Tick

SpecLive ==
    /\ Init
    /\ [][NextLive]_vars
    /\ WF_vars(Deliver)
    /\ []<>(req.op = "tick")
    /\ SF_vars(\E t \in ClockTimes : Advance(t))

(***************************************************************************)
(* The browser client (src/public/script.js) with the server.  A fetch is  *)
(* a request on its way, then the server's handler, then a response on its *)
(* way; submits, clicks and the overlay's timer come at any time between.  *)
(* Two requests or two responses on their way arrive in either order; the  *)
(* messages of the one socket arrive in the order sent.  The handlers look *)
(* at isCounterRunning and currentSession only, never at the overlay.  A   *)
(* started session disables the form, and a disabled form yields no form   *)
(* data.  An earnings-update only repaints the counter and is left out.    *)
(***************************************************************************)
\* getFormData() of a valid form asking for a session of one hour
ClientBodies ==
    {[hourlyRate |-> Num(20), overtimeType |-> "normal", hours |-> Num(1)]}

\* the fetches that have not come back yet, without the stop requests
Outstanding ==
    Len(client.startReqs) + Len(client.startResps)
        + Len(client.calcReqs) + Len(client.calcResps)

\* the messages on their way without the i-th, which has arrived
RemoveAt(s, i) == SubSeq(s, 1, i - 1) \o SubSeq(s, i + 1, Len(s))

\* getFormData() returns null: new FormData(form) has no entry for a
\* disabled control, so salary, dailyHours and overtimeType are missing
NoFormData == client.formDisabled

\* handleFormSubmit and startOvertimeSession up to the fetch
handleFormSubmit(formData) ==
    /\ Outstanding < MaxPending
    /\ client' = IF client.isCounterRunning \/ NoFormData
                 THEN client
                 ELSE [client EXCEPT !.loading = TRUE,
                                     !.startReqs = Append(@, formData)]
    /\ UNCHANGED <<clock, sessions, tracking, req, resp, emitted, hist>>

\* POST /api/start-session for a start request on its way
ServeStart ==
    /\ \E i \in 1..Len(client.startReqs) :
           LET b == client.startReqs[i]
               r == StartSessionResult(b.hourlyRate, b.overtimeType, b.hours)
           IN  /\ Len(r.sessions) <= MaxSessions
               /\ sessions' = r.sessions
               /\ hist' = IF r.resp.status = 200
                          THEN MapSet(hist, r.resp.sessionId, FreshHist)
                          ELSE hist
               /\ client' = [client EXCEPT !.startReqs = RemoveAt(@, i),
                                           !.startResps = Append(@, r.resp)]
    /\ UNCHANGED <<clock, tracking, req, resp, emitted>>

\* startOvertimeSession from the response on
StartResponse ==
    /\ \E i \in 1..Len(client.startResps) :
           LET result == client.startResps[i]
           IN  client' =
                   IF result.status = 200
                   THEN [client EXCEPT !.startResps = RemoveAt(@, i),
                                       !.currentSession = result.sessionId,
                                       !.isCounterRunning = TRUE,
                                       !.joinReqs = Append(@, result.sessionId),
                                       !.formDisabled = TRUE,
                                       !.loading = FALSE]
                   ELSE [client EXCEPT !.startResps = RemoveAt(@, i),
                                       !.loading = FALSE]
    /\ UNCHANGED <<clock, sessions, tracking, req, resp, emitted, hist>>

\* socket.on('join-session') on the server
ServeJoin ==
    /\ client.joinReqs # <<>>
    /\ client' = [client EXCEPT !.joinReqs = Tail(@),
                                !.rooms = @ \cup {Head(client.joinReqs)}]
    /\ UNCHANGED <<clock, sessions, tracking, req, resp, emitted, hist>>

\* handleCalculate up to the fetch
handleCalculate(formData) ==
    /\ Outstanding < MaxCalcs
    /\ client' = IF NoFormData
                 THEN client
                 ELSE [client EXCEPT !.loading = TRUE,
                                     !.calcReqs = Append(@, formData)]
    /\ UNCHANGED <<clock, sessions, tracking, req, resp, emitted, hist>>

\* POST /api/calculate for a calculate request on its way
ServeCalculate ==
    /\ \E i \in 1..Len(client.calcReqs) :
           LET b == client.calcReqs[i]
           IN  client' =
                   [client EXCEPT
                       !.calcReqs = RemoveAt(@, i),
                       !.calcResps =
                           Append(@, CalculateResponse(b.hourlyRate, b.overtimeType,
                                                       b.hours))]
    /\ UNCHANGED <<clock, sessions, tracking, req, resp, emitted, hist>>

\* handleCalculate from the response on: the result is shown, the overlay
\* hidden
CalculateDone ==
    /\ \E i \in 1..Len(client.calcResps) :
           client' = [client EXCEPT !.calcResps = RemoveAt(@, i),
                                    !.loading = FALSE]
    /\ UNCHANGED <<clock, sessions, tracking, req, resp, emitted, hist>>

\* handleStop up to the fetch
handleStop ==
    /\ Len(client.stopLog) < MaxStops
    /\ client' = IF client.currentSession = NoSession
                 THEN client
                 ELSE [client EXCEPT !.loading = TRUE,
                                     !.stopReqs = Append(@, client.currentSession),
                                     !.stopLog = Append(@, client.currentSession)]
    /\ UNCHANGED <<clock, sessions, tracking, req, resp, emitted, hist>>

\* POST /api/stop-session/:sessionId for a stop request on its way
ServeStop ==
    /\ \E i \in 1..Len(client.stopReqs) :
           LET sessionId == client.stopReqs[i]
               r == StopSessionResult(sessionId)
               was == MapGet(sessions, sessionId)
               h == MapGet(hist, sessionId)
           IN  /\ sessions' = r.sessions
               /\ tracking' = r.tracking
               /\ hist' = IF r.resp.status = 200
                          THEN MapSet(hist, sessionId,
                                      [h EXCEPT !.stopped = TRUE,
                                                !.endedBy = IF was.isActive
                                                            THEN "stop" ELSE @,
                                                !.deacts = IF was.isActive
                                                           THEN @ + 1 ELSE @])
                          ELSE hist
               /\ client' = [client EXCEPT !.stopReqs = RemoveAt(@, i),
                                           !.stopResps = Append(@, r.resp)]
    /\ UNCHANGED <<clock, req, resp, emitted>>

\* handleStop from the response on
StopResponse ==
    /\ \E i \in 1..Len(client.stopResps) :
           LET result == client.stopResps[i]
           IN  client' =
                   IF result.status = 200
                   THEN [client EXCEPT !.stopResps = RemoveAt(@, i),
                                       !.isCounterRunning = FALSE,
                                       !.currentSession = NoSession,
                                       !.formDisabled = FALSE,
                                       !.loading = FALSE]
                   ELSE [client EXCEPT !.stopResps = RemoveAt(@, i),
                                       !.loading = FALSE]
    /\ UNCHANGED <<clock, sessions, tracking, req, resp, emitted, hist>>

\* the timer of showLoading(true): the overlay hides itself after 10 seconds,
\* whether or not the response has come
HideOverlay ==
    /\ client.loading
    /\ client' = [client EXCEPT !.loading = FALSE]
    /\ UNCHANGED <<clock, sessions, tracking, req, resp, emitted, hist>>

ClientClockTimes == {i * ClockStepMs : i \in 0..MaxClientClockSteps}

ClientAdvance(t) ==
    /\ t > clock
    /\ clock' = t
    /\ UNCHANGED <<sessions, tracking, req, resp, emitted, hist, client>>

\* the session-complete events of a tick that go to the rooms of the socket
RoomEvents ==
    SelectSeq(TickEvents(Len(sessions)),
              LAMBDA e : e.name = "session-complete" /\ e.room \in client.rooms)

\* the scheduler's tick, its events on their way to the client
ClientTick ==
    /\ sessions' = [i \in 1..Len(sessions) |->
                       [key |-> sessions[i].key,
                        val |-> TickSession(sessions[i].val).session]]
    /\ hist' = [i \in 1..Len(hist) |->
                   LET was == MapGet(sessions, hist[i].key)
                       r == TickSession(was)
                   IN  [key |-> hist[i].key,
                        val |-> Observe(hist[i].val, was, r.session, "tick",
                                        CompleteEvents(r.events))]]
    /\ client' = [client EXCEPT !.events = @ \o RoomEvents]
    /\ UNCHANGED <<clock, tracking, req, resp, emitted>>

\* socket.on('session-complete'): handleSessionComplete, which sets a timer
\* of 3 seconds
handleSessionComplete ==
    /\ client.events # <<>>
    /\ client' = [client EXCEPT !.events = Tail(@),
                                !.isCounterRunning = FALSE,
                                !.currentSession = NoSession,
                                !.enableTimers = @ + 1]
    /\ UNCHANGED <<clock, sessions, tracking, req, resp, emitted, hist>>

\* the timer of handleSessionComplete: the form is enabled again
EnableForm ==
    /\ client.enableTimers > 0
    /\ client' = [client EXCEPT !.enableTimers = @ - 1,
                                !.formDisabled = FALSE]
    /\ UNCHANGED <<clock, sessions, tracking, req, resp, emitted, hist>>

NextClient ==
    \/ \E formData \in ClientBodies : handleFormSubmit(formData)
    \/ ServeStart
    \/ StartResponse
    \/ ServeJoin
    \/ \E formData \in ClientBodies : handleCalculate(formData)
    \/ ServeCalculate
    \/ CalculateDone
    \/ handleStop
    \/ ServeStop
    \/ StopResponse
    \/ HideOverlay
    \/ \E t \in ClientClockTimes : ClientAdvance(t)
    \/ ClientTick
    \/ handleSessionComplete
    \/ EnableForm

SpecClient == Init /\ [][NextClient]_vars

(***************************************************************************)
(* Properties.                                                             *)
(***************************************************************************)
Range(f) == {f[i] : i \in DOMAIN f}

\* v is of type number, as NaN is too
IsNum(v) == v.k \in {"num", "nan"}

\* a number that is not NaN
IsFinite(v) == IsNum(v) /\ ~IsNaN(v)

\* the step answers a stop request for stored session id with success
StopStep(id) ==
    /\ req'.op = "stop"
    /\ req'.sessionId = id
    /\ resp'.status = 200

\* C1: a stop request on a session that an earlier stop request already
\* stopped adds nothing to the tracker: the weekly and yearly totals are
\* updated once per stopped session.
C1_TrackedOncePerSession ==
    [][\A id \in MapKeys(sessions) :
          (StopStep(id) /\ MapGet(hist, id).stopped) => tracking' = tracking]_vars

\* C2: right after a tick at or past the deadline of a fixed session that
\* no client stopped, exactly one session-complete event has been emitted for
\* it over the run, and it went from active to inactive exactly once.
C2_ExactlyOneCompletion ==
    \A i \in 1..Len(sessions) :
        LET s == sessions[i].val
            h == MapGet(hist, sessions[i].key)
        IN  (/\ req.op = "tick"
             /\ ~s.isOpenEnded
             /\ ~h.stopped
             /\ ~Lt(ElapsedSeconds(s), MaxSeconds(s)))
            => (h.completes = 1 /\ h.deacts = 1)

\* C3: a stop, a tick or a status query on a session that is already
\* inactive leaves its endTime and its duration as they were.
C3_EndSetOnce ==
    [][\A id \in MapKeys(sessions) :
          (~MapGet(sessions, id).isActive /\ req'.op \in {"stop", "tick", "status"})
          => /\ MapGet(sessions', id).endTime = MapGet(sessions, id).endTime
             /\ MapGet(sessions', id).duration = MapGet(sessions, id).duration]_vars

\* a start request the claim calls invalid: hourlyRate missing or not
\* positive, overtimeType missing, or hours supplied and not positive
InvalidStart(r) ==
    \/ ~IsNum(r.hourlyRate)
    \/ Le(r.hourlyRate, Num(0))
    \/ ~TruthyStr(r.overtimeType)
    \/ (IsNum(r.hours) /\ Le(r.hours, Num(0)))

\* C4: an invalid start request is answered 400 and changes neither the
\* session store nor the tracker.
C4_InvalidStartRejected ==
    [][(req'.op = "start" /\ InvalidStart(req'))
       => (resp'.status = 400 /\ sessions' = sessions /\ tracking' = tracking)]_vars

\* C5: a successful start stores its session under an id that no stored
\* session has, so the store grows by one session with every successful start.
C5_FreshSessionId ==
    [][(req'.op = "start" /\ resp'.status = 200)
       => (/\ ~MapHas(sessions, resp'.sessionId)
           /\ Len(sessions') = Len(sessions) + 1)]_vars

\* a request body with hourlyRate > 0, an overtime type and hours > 0
WellFormed(r) ==
    /\ IsNum(r.hourlyRate) /\ Gt(r.hourlyRate, Num(0))
    /\ TruthyStr(r.overtimeType)
    /\ IsNum(r.hours) /\ Gt(r.hours, Num(0))

\* C6: a start or calculate request with hourlyRate > 0, an overtime type
\* and hours > 0 is answered with success whatever the hours and the totals
\* of the tracker; hours over the daily cap, or over the weekly or yearly cap
\* with the totals, add the warning of that cap to the answer, and a start
\* stores the session as an active one.
C6_LimitsAdvisory ==
    (req.op \in {"start", "calculate"} /\ WellFormed(req))
    => /\ resp.status = 200
       /\ Gt(req.hours, Num(MAX_HOURS_PER_DAY)) <=> "daily" \in Range(resp.warnings)
       /\ Gt(Add(TrackingOf("default").weekly, req.hours), Num(MAX_HOURS_PER_WEEK))
              <=> "weekly" \in Range(resp.warnings)
       /\ Gt(Add(TrackingOf("default").yearly, req.hours), Num(MAX_HOURS_PER_YEAR))
              <=> "yearly" \in Range(resp.warnings)
       /\ req.op = "start"
              => /\ MapHas(sessions, resp.sessionId)
                 /\ MapGet(sessions, resp.sessionId).isActive
                 /\ MapGet(sessions, resp.sessionId).totalHours = req.hours

\* a start of 11 hours succeeds with the daily warning and, the tracker
\* holding 2 hours, the weekly one
C6_Witness ==
    /\ req.op = "start"
    /\ req.hours = Num(11)
    /\ resp.status = 200
    /\ TrackingOf("default").weekly = Num(2)
    /\ {"daily", "weekly"} \subseteq Range(resp.warnings)
    /\ MapGet(sessions, resp.sessionId).totalHours = Num(11)

\* C7: no start stores a session whose hours exceed 4, or exceed 12 with the
\* weekly total, or exceed 100 with the yearly total.
C7_LimitsEnforced ==
    [][(req'.op = "start" /\ resp'.status = 200 /\ IsNum(req'.hours)
        /\ Truthy(req'.hours))
       => /\ Le(req'.hours, Num(MAX_HOURS_PER_DAY))
          /\ Le(Add(TrackingOf("default").weekly, req'.hours), Num(MAX_HOURS_PER_WEEK))
          /\ Le(Add(TrackingOf("default").yearly, req'.hours),
                Num(MAX_HOURS_PER_YEAR))]_vars

\* C8: a successful stop of a stored fixed session of H hours adds exactly H
\* to the weekly and to the yearly total of the default user, and changes no
\* tracking entry of another user and no other session.
C8_StopAddsHours ==
    [][\A id \in MapKeys(sessions) :
          (StopStep(id) /\ ~MapGet(sessions, id).isOpenEnded)
          => /\ MapHas(tracking', "default")
             /\ MapGet(tracking', "default") =
                    [weekly |-> Add(TrackingOf("default").weekly,
                                    MapGet(sessions, id).totalHours),
                     yearly |-> Add(TrackingOf("default").yearly,
                                    MapGet(sessions, id).totalHours)]
             /\ \A u \in MapKeys(tracking) \cup MapKeys(tracking') :
                    u # "default"
                    => /\ MapHas(tracking, u) /\ MapHas(tracking', u)
                       /\ MapGet(tracking', u) = MapGet(tracking, u)
             /\ MapKeys(sessions') = MapKeys(sessions)
             /\ \A other \in MapKeys(sessions) :
                    other # id
                    => MapGet(sessions', other) = MapGet(sessions, other)]_vars

\* a fixed session has just been stopped while another session is stored
\* and the tracker already held hours
C8_Witness ==
    /\ req.op = "stop"
    /\ resp.status = 200
    /\ ~resp.session.isOpenEnded
    /\ Len(sessions) = 2
    /\ TrackingOf("default") = [weekly |-> Num(2), yearly |-> Num(2)]

\* C9: an inactive session has its endTime and duration set; its
\* currentEarnings is the totalPay of its calculation when a tick or a status
\* query completed it, and the last accrual computed for it when a stop
\* request ended it.
C9_TerminalEarnings ==
    \A i \in 1..Len(sessions) :
        LET s == sessions[i].val
            h == MapGet(hist, sessions[i].key)
        IN  ~s.isActive
            => /\ IsFinite(s.endTime)
               /\ IsFinite(s.duration)
               /\ h.endedBy \in {"tick", "status", "stop"}
               /\ h.endedBy \in {"tick", "status"}
                      => (~s.isOpenEnded /\ s.currentEarnings = s.calculation.totalPay)
               /\ h.endedBy = "stop" => s.currentEarnings = h.accrued

\* one session was completed by a tick past its deadline, another was
\* stopped by a client after it had accrued earnings
C9_Witness ==
    /\ \E i \in 1..Len(sessions) :
           /\ ~sessions[i].val.isActive
           /\ MapGet(hist, sessions[i].key).endedBy = "tick"
           /\ Gt(sessions[i].val.duration, MaxSeconds(sessions[i].val))
    /\ \E i \in 1..Len(sessions) :
           /\ ~sessions[i].val.isActive
           /\ MapGet(hist, sessions[i].key).endedBy = "stop"
           /\ Gt(sessions[i].val.currentEarnings, Num(0))

\* C10: the remainingTime of an open-ended session is never a number: not
\* in the stored session, not in an earnings-update event for it, and not in
\* the answer to a status query or a stop request for it.
C10_OpenEndedNoRemaining ==
    /\ \A i \in 1..Len(sessions) :
           sessions[i].val.isOpenEnded => ~IsNum(sessions[i].val.remainingTime)
    /\ \A j \in 1..Len(emitted) :
           (emitted[j].name = "earnings-update" /\ emitted[j].isOpenEnded)
           => ~IsNum(emitted[j].remainingTime)
    /\ \A j \in 1..Len(emitted) :
           MapGet(sessions, emitted[j].room).isOpenEnded
           => (emitted[j].name = "earnings-update" /\ emitted[j].isOpenEnded)
    /\ (req.op \in {"status", "stop"} /\ resp.status = 200 /\ resp.session.isOpenEnded)
       => ~IsNum(resp.session.remainingTime)

\* an open-ended session was polled after time had passed and then stopped
C10_Witness ==
    \E i \in 1..Len(sessions) :
        /\ sessions[i].val.isOpenEnded
        /\ ~sessions[i].val.isActive
        /\ sessions[i].val.remainingTime = Null
        /\ Gt(sessions[i].val.elapsedTime, Num(0))

\* C11: a status query changes the startTime, hourlyRate and overtimeType of
\* no stored session (and adds or removes none), and a list request changes
\* no session at all.
C11_QueriesKeepIdentity ==
    [][/\ req'.op = "status"
          => /\ MapKeys(sessions') = MapKeys(sessions)
             /\ \A id \in MapKeys(sessions) :
                    /\ MapGet(sessions', id).startTime = MapGet(sessions, id).startTime
                    /\ MapGet(sessions', id).hourlyRate = MapGet(sessions, id).hourlyRate
                    /\ MapGet(sessions', id).overtimeType
                           = MapGet(sessions, id).overtimeType
       /\ req'.op = "list" => sessions' = sessions]_vars

\* a status query has just recomputed the earnings of an active fixed
\* session after time had passed
C11_Witness ==
    /\ req.op = "status"
    /\ resp.status = 200
    /\ resp.session.isActive
    /\ ~resp.session.isOpenEnded
    /\ Gt(resp.session.elapsedTime, Num(0))
    /\ Gt(resp.session.currentEarnings, Num(0))

\* C12: a stop request or a status query for an id that is not in the store
\* is answered 404 and leaves the session store and the tracker as they were.
C12_NotFoundChangesNothing ==
    [][(req'.op \in {"stop", "status"} /\ ~MapHas(sessions, req'.sessionId))
       => (resp'.status = 404 /\ sessions' = sessions /\ tracking' = tracking)]_vars

\* a stop request for an unknown id was answered 404 while a session is
\* stored and nothing has been tracked yet
C12_Witness ==
    /\ req.op = "stop"
    /\ req.sessionId = UnknownId
    /\ resp.status = 404
    /\ Len(sessions) > 0
    /\ tracking = <<>>

\* C13: earnings-update and session-complete events are emitted only by the
\* scheduler tick: whenever an event is on its way the step that emitted it is
\* a tick, and a status query emits none also when it completes the session.
C13_OnlyTickEmits ==
    /\ emitted # <<>> => req.op = "tick"
    /\ \A i \in 1..Len(emitted) :
           emitted[i].name \in {"earnings-update", "session-complete"}

\* a status query has just moved a fixed session to completed and no event
\* is on its way
C13_Witness ==
    /\ req.op = "status"
    /\ resp.status = 200
    /\ ~resp.session.isActive
    /\ MapHas(hist, req.sessionId)
    /\ MapGet(hist, req.sessionId).endedBy = "status"
    /\ MapGet(hist, req.sessionId).completes = 0
    /\ emitted = <<>>

\* the fields of a session that a tick or a status query may assign
TransitionFields(session) ==
    [isActive |-> session.isActive,
     endTime |-> session.endTime,
     duration |-> session.duration,
     currentEarnings |-> session.currentEarnings,
     elapsedTime |-> session.elapsedTime,
     remainingTime |-> session.remainingTime]

\* C14: for every stored session and the clock value of the state, a status
\* query at that time leaves the session with the same isActive, endTime,
\* duration, currentEarnings, elapsedTime and remainingTime as a tick at that
\* time would.
C14_StatusSameAsTick ==
    \A id \in MapKeys(sessions) :
        TransitionFields(StatusTransition(MapGet(sessions, id)))
            = TransitionFields(TickSession(MapGet(sessions, id)).session)

\* the positions of the events on their way to the room of session id
EventsFor(events, id) == {i \in 1..Len(events) : events[i].room = id}

\* C17: on each tick every session that is active when the tick starts gets
\* exactly one event, an earnings-update if it is still active after the tick
\* and a session-complete if the tick completed it; a session that is
\* inactive when the tick starts gets no event and is not changed.
C17_OneEventPerActiveSession ==
    [][req'.op = "tick"
       => \A id \in MapKeys(sessions) :
              LET was == MapGet(sessions, id)
                  is == MapGet(sessions', id)
                  ev == EventsFor(emitted', id)
              IN  IF was.isActive
                  THEN /\ Cardinality(ev) = 1
                       /\ \A i \in ev :
                              emitted'[i].name = IF is.isActive
                                                 THEN "earnings-update"
                                                 ELSE "session-complete"
                  ELSE /\ ev = {}
                       /\ is = was]_vars

\* a tick has run over an inactive session, a session it completed and
\* nothing else: one session-complete event is on its way
C17_Witness ==
    /\ req.op = "tick"
    /\ Len(sessions) = 2
    /\ Len(emitted) = 1
    /\ emitted[1].name = "session-complete"
    /\ \E id \in MapKeys(sessions) :
           /\ MapGet(hist, id).endedBy \in {"stop", "status"}
           /\ EventsFor(emitted, id) = {}

\* C18: once a session has been explicitly stopped, no later tick and no
\* later status query changes any of its fields, and no event is emitted for
\* it, also when the stop came before the deadline of a fixed session and
\* ticks continue past that deadline.
C18_StoppedStaysPut ==
    [][\A id \in MapKeys(sessions) :
           (MapGet(hist, id).stopped /\ req'.op \in {"tick", "status"})
           => /\ MapGet(sessions', id) = MapGet(sessions, id)
              /\ EventsFor(emitted', id) = {}]_vars

\* a tick has run past the deadline of a fixed session that was stopped
\* before its deadline
C18_Witness ==
    /\ req.op = "tick"
    /\ \E id \in MapKeys(sessions) :
           LET session == MapGet(sessions, id)
           IN  /\ MapGet(hist, id).stopped
               /\ MapGet(hist, id).endedBy = "stop"
               /\ ~session.isOpenEnded
               /\ Lt(session.duration, MaxSeconds(session))
               /\ ~Lt(ElapsedSeconds(session), MaxSeconds(session))
               /\ EventsFor(emitted, id) = {}

\* C19: once the isActive of a stored session id is false it never becomes
\* true again.
C19_InactiveForever ==
    [][\A id \in MapKeys(sessions) :
           ~MapGet(sessions, id).isActive => ~MapGet(sessions', id).isActive]_vars

\* the warnings the limits call for, from the numerators and denominators of
\* the hours and of the tracked totals
ExpectedWarnings(hours, weekly, yearly) ==
    (IF hours.n > 4 * hours.d THEN {"daily"} ELSE {})
    \cup (IF weekly.n * hours.d + hours.n * weekly.d > 12 * weekly.d * hours.d
          THEN {"weekly"} ELSE {})
    \cup (IF yearly.n * hours.d + hours.n * yearly.d > 100 * yearly.d * hours.d
          THEN {"yearly"} ELSE {})
    \cup (IF hours.n > 8 * hours.d THEN {"sustainability"} ELSE {})

\* C15: for every hours value and tracking state the validator returns
\* isValid = true exactly when hours > 0, errors non-empty exactly when
\* hours <= 0, and exactly these warnings: daily iff hours > 4, weekly iff
\* tracking.weekly + hours > 12, yearly iff tracking.yearly + hours > 100,
\* sustainability iff hours > 8; no warning makes the result invalid.
C15_ValidatorTable ==
    req.op = "validate"
    => /\ resp.isValid <=> req.hours.n > 0
       /\ resp.errors # <<>> <=> req.hours.n <= 0
       /\ Range(resp.warnings)
              = ExpectedWarnings(req.hours, TrackingOf("default").weekly,
                                 TrackingOf("default").yearly)
       /\ Len(resp.warnings) = Cardinality(Range(resp.warnings))

\* hours just above 4 with zeroed tracking: valid, with a daily warning only
C15_Witness ==
    /\ req.op = "validate"
    /\ req.hours = Rat(401, 100)
    /\ TrackingOf("default") = ZeroTracking
    /\ resp.isValid
    /\ resp.errors = <<>>
    /\ resp.warnings = <<"daily">>

\* the multiplier of the table: 1.5 / 1.75 / 2.0 / 2.5, and 1.5 for any
\* other type
TableMultiplier(overtimeType) ==
    CASE overtimeType = "normal" -> Rat(3, 2)
      [] overtimeType = "night" -> Rat(7, 4)
      [] overtimeType = "sunday" -> Num(2)
      [] overtimeType = "holiday" -> Rat(5, 2)
      [] OTHER -> Rat(3, 2)

\* the calculation the table gives for a rate, a type and hours
TablePay(hourlyRate, overtimeType, hours) ==
    LET m == TableMultiplier(overtimeType)
    IN  [hourlyRate |-> hourlyRate,
         multiplier |-> m,
         totalPay |-> Rat(hourlyRate.n * m.n * hours.n, hourlyRate.d * m.d * hours.d),
         ratePerSecond |-> Rat(hourlyRate.n * m.n, hourlyRate.d * m.d * 3600)]

\* C16: for every hourlyRate > 0, overtime type and hours > 0 the pay
\* calculation returns the multiplier of the table (1.5 for any other type),
\* totalPay = hourlyRate * multiplier * hours and a ratePerSecond with
\* ratePerSecond * hours * 3600 = totalPay; a session started without hours
\* stores the calculation for hours = 1.
C16_PayTable ==
    req.op \in {"calculate", "start"}
    => /\ resp.status = 200
       /\ resp.calculation
              = TablePay(req.hourlyRate, req.overtimeType,
                         IF req.hours = Undef THEN Num(1) ELSE req.hours)
       /\ Mul(Mul(resp.calculation.ratePerSecond,
                  IF req.hours = Undef THEN Num(1) ELSE req.hours), Num(3600))
              = resp.calculation.totalPay
       /\ (req.op = "start" /\ req.hours = Undef)
          => MapGet(sessions, resp.sessionId).calculation
                 = TablePay(req.hourlyRate, req.overtimeType, Num(1))

\* the ids a start can assign
SessionIds == {ToStr(t) : t \in ClockTimes}

\* session is fixed-duration and active, and its deadline is a value the
\* clock reaches
ActiveFixed(session) ==
    /\ session.isActive
    /\ ~session.isOpenEnded
    /\ Le(Add(session.startTime, Mul(session.totalHours, Num(ClockStepMs))),
          Num(MaxClockSteps * ClockStepMs))

\* C20: with the clock advancing and the scheduler ticking, every
\* fixed-duration session eventually becomes inactive, whether or not a
\* client stops it or asks for its status.
C20_FixedSessionEnds ==
    \A id \in SessionIds :
        (MapHas(sessions, id) /\ ActiveFixed(MapGet(sessions, id)))
            ~> (MapHas(sessions, id) /\ ~MapGet(sessions, id).isActive)

\* C21: an open-ended session stays active until it is explicitly stopped: no
\* tick and no status query, at any elapsed time, sets its isActive to false
\* or sets its endTime or duration.
C21_OpenEndedRunsUntilStopped ==
    [][req'.op \in {"tick", "status"}
       => \A id \in MapKeys(sessions) :
              MapGet(sessions, id).isOpenEnded
              => /\ MapGet(sessions', id).isActive = MapGet(sessions, id).isActive
                 /\ MapGet(sessions', id).endTime = MapGet(sessions, id).endTime
                 /\ MapGet(sessions', id).duration = MapGet(sessions, id).duration]_vars

\* a tick has run over an open-ended session that started two hours ago and
\* was never stopped: it is active, with earnings beyond its one-hour totalPay
C21_Witness ==
    /\ req.op = "tick"
    /\ \E id \in MapKeys(sessions) :
           LET session == MapGet(sessions, id)
           IN  /\ session.isOpenEnded
               /\ session.isActive
               /\ session.endTime = Undef
               /\ session.duration = Undef
               /\ ~MapGet(hist, id).stopped
               /\ Gt(ElapsedSeconds(session), Num(SecondsPerHour))
               /\ Gt(session.currentEarnings, session.calculation.totalPay)

\* C22: stopping an open-ended session (totalHours absent) leaves
\* tracking.weekly and tracking.yearly numerically unchanged and still
\* numeric.
C22_OpenEndedStopAddsNothing ==
    [][(/\ req'.op = "stop"
        /\ MapHas(sessions, req'.sessionId)
        /\ MapGet(sessions, req'.sessionId).isOpenEnded)
       => /\ MapHas(tracking', "default")
          /\ IsFinite(MapGet(tracking', "default").weekly)
          /\ IsFinite(MapGet(tracking', "default").yearly)
          /\ MapGet(tracking', "default").weekly = TrackingOf("default").weekly
          /\ MapGet(tracking', "default").yearly = TrackingOf("default").yearly]_vars

\* an open-ended session has just been stopped after a fixed session of one
\* hour had been: the totals are still 1
C22_Witness ==
    /\ req.op = "stop"
    /\ resp.status = 200
    /\ resp.session.isOpenEnded
    /\ resp.session.totalHours = Null
    /\ MapHas(tracking, "default")
    /\ MapGet(tracking, "default").weekly = Num(1)
    /\ MapGet(tracking, "default").yearly = Num(1)

\* C23: tracking.weekly and tracking.yearly are non-negative in every
\* reachable state, no step decreases or resets either total, and a tracking
\* entry, once created, is never removed.
C23_TotalsNeverDecrease ==
    [][/\ \A i \in 1..Len(tracking') :
              /\ IsFinite(tracking'[i].val.weekly) /\ tracking'[i].val.weekly.n >= 0
              /\ IsFinite(tracking'[i].val.yearly) /\ tracking'[i].val.yearly.n >= 0
       /\ \A userId \in MapKeys(tracking) :
              /\ MapHas(tracking', userId)
              /\ Le(MapGet(tracking, userId).weekly, MapGet(tracking', userId).weekly)
              /\ Le(MapGet(tracking, userId).yearly, MapGet(tracking', userId).yearly)]_vars

\* stops of a fixed and of an open-ended session have been recorded and a
\* further stop has just raised the totals to 2
C23_Witness ==
    /\ req.op = "stop"
    /\ resp.status = 200
    /\ MapHas(tracking, "default")
    /\ MapGet(tracking, "default").weekly = Num(2)
    /\ MapGet(tracking, "default").yearly = Num(2)
    /\ \E id \in MapKeys(sessions) :
           MapGet(sessions, id).isOpenEnded /\ MapGet(hist, id).stopped

\* C24: ticks and status queries never change the tracking totals, so a fixed
\* session that completes naturally and is never stopped contributes nothing;
\* a stop issued after natural completion still adds its totalHours.
C24_OnlyStopTracks ==
    [][/\ req'.op \in {"tick", "status"} => tracking' = tracking
       /\ (/\ req'.op = "stop"
           /\ MapHas(sessions, req'.sessionId)
           /\ ~MapGet(sessions, req'.sessionId).isActive
           /\ ~MapGet(hist, req'.sessionId).stopped
           /\ MapGet(hist, req'.sessionId).endedBy \in {"tick", "status"})
          => /\ MapHas(tracking', "default")
             /\ MapGet(tracking', "default").weekly
                    = Add(TrackingOf("default").weekly,
                          MapGet(sessions, req'.sessionId).totalHours)
             /\ MapGet(tracking', "default").yearly
                    = Add(TrackingOf("default").yearly,
                          MapGet(sessions, req'.sessionId).totalHours)]_vars

\* a tick completed a one-hour session, nothing was tracked until the stop
\* that has just been answered, and that stop added the hour
C24_Witness ==
    /\ req.op = "stop"
    /\ resp.status = 200
    /\ MapGet(hist, req.sessionId).endedBy = "tick"
    /\ MapGet(hist, req.sessionId).stopped
    /\ resp.session.totalHours = Num(1)
    /\ MapGet(tracking, "default").weekly = Num(1)
    /\ MapGet(tracking, "default").yearly = Num(1)

\* C25: in every reachable state every fixed-duration session has
\* 0 <= currentEarnings <= calculation.totalPay, and from one state to the
\* next the currentEarnings of no session decreases (the clock only advances).
C25_EarningsBounded ==
    [][/\ \A id \in MapKeys(sessions') :
              ~MapGet(sessions', id).isOpenEnded
              => /\ Le(Num(0), MapGet(sessions', id).currentEarnings)
                 /\ Le(MapGet(sessions', id).currentEarnings,
                       MapGet(sessions', id).calculation.totalPay)
       /\ \A id \in MapKeys(sessions) :
              ~Lt(MapGet(sessions', id).currentEarnings,
                  MapGet(sessions, id).currentEarnings)]_vars

\* C26: the client has at most one session of its own running at a time: it
\* issues no start-session request while an earlier one awaits its response
\* or while its session is still running, and it issues at most one
\* stop-session request per session.
C26_OneSessionPerClient ==
    [][/\ Len(client'.startReqs) > Len(client.startReqs)
          => /\ client.startReqs = <<>>
             /\ client.startResps = <<>>
             /\ ~client.isCounterRunning
             /\ \A id \in MapKeys(sessions) : ~MapGet(sessions, id).isActive
       /\ \A i, j \in 1..Len(client'.stopLog) :
              i # j => client'.stopLog[i] # client'.stopLog[j]]_vars

====
